---- MODULE Spec2Model ----
(***************************************************************************)
(* Model of train/train.py: an auto-decoder training script.               *)
(*                                                                         *)
(* The script is one straight-line program: build the latent table and    *)
(* the decoder, run the training loop (one optimizer update per sample per *)
(* epoch), export the decoder, then sample a grid of latent points and     *)
(* label each with the nearest training shape.  Plotting and the printing  *)
(* of the learned codes change no state and are left out.                  *)
(*                                                                         *)
(* The dataset, the epoch count and the display interval are the inputs:   *)
(* Spec draws them from the datasets the data model allows (one sample or  *)
(* more, pixels in [0, 1]); SpecFault also admits an empty dataset and     *)
(* images with invalid pixels.                                             *)
(*                                                                         *)
(* Numbers.  Floating-point tensors are modelled as integers.  A pixel is  *)
(* 0 or 1 (the ends of the sigmoid range), a parameter moves by one unit   *)
(* per optimizer update, a loss carries three decimals (unit 1/1000).  NaN *)
(* is one distinguished value that every arithmetic operation propagates   *)
(* and that every comparison answers FALSE for, as IEEE-754 does.          *)
(*                                                                         *)
(* Decoder.  The four Dense layers are reduced to one weight shared by all *)
(* outputs (the hidden layers) and one bias per output pixel, followed by  *)
(* the saturating output activation.  Pixel p reads latent coordinate      *)
(* ((p-1) mod LATENT_DIM)+1.                                               *)
(*                                                                         *)
(* Optimizer.  keras.optimizers.Adam keeps a first-moment accumulator per  *)
(* variable entry, m <- beta_1*m + (1-beta_1)*g with beta_1 = 0.9, and      *)
(* moves every entry of every variable it is given against the sign of its *)
(* accumulator by at most about one learning rate.  The gradient of        *)
(* tf.gather is nonzero only in the gathered row, but the update is applied *)
(* to the whole variable (a sparse gradient is treated as a dense one with *)
(* zero rows).  The second moment only scales the step by a positive       *)
(* factor and is left out.                                                 *)
(***************************************************************************)
EXTENDS Integers, Sequences, FiniteSets, TLC

\* ---------------------------------------------------------------- bounds
\* Largest dataset size drawn for NUM_SHAPES.
MaxShapes == 2
\* Largest epoch count drawn for epochs.
MaxEpochs == 3
\* Resolution of the sampled grid (20 in the script).
grid_size == 2

\* ------------------------------------------------------ program constants
LATENT_DIM == 2
x_min == -3
x_max == 3
y_min == -3
y_max == 3
\* Flattened image size (28 * 28 in the script, two pixels here).
IMG_SIZE == 2

\* float('nan') and float('inf')
NaN == -(10 ^ 6)
Inf == 10 ^ 6

VARIABLES
    NUM_SHAPES,        \* len(x_data)
    epochs,            \* configured number of epochs
    display_interval,  \* configured reporting interval
    x_data,            \* the target images, one per sample
    y_data,            \* the class labels, one per sample
    latent_codes,      \* tf.Variable [NUM_SHAPES, LATENT_DIM]
    decoder_vars,      \* decoder.trainable_variables: [hidden, bias]
    adam,              \* optimizer slots: [latent, hidden, bias, iterations]
    pc,                \* position in the script
    epoch,             \* outer loop variable
    pos,               \* position in range(NUM_SHAPES) of the inner loop
    epoch_loss,        \* accumulator of the current epoch
    loss_history,      \* list of per-epoch mean losses
    console,           \* progress lines printed so far
    step_log,          \* one entry per train_step call (observation only)
    export_weights,    \* weights of export_model once saved, else <<>>
    gx, gy,            \* positions in x_grid and y_grid
    encoded_points,    \* list of [x, y, class]
    encoded_json       \* content of encoded.json once written, else <<>>

vars == <<NUM_SHAPES, epochs, display_interval, x_data, y_data,
          latent_codes, decoder_vars, adam, pc, epoch, pos, epoch_loss,
          loss_history, console, step_log, export_weights, gx, gy,
          encoded_points, encoded_json>>

config == <<NUM_SHAPES, epochs, display_interval, x_data, y_data>>
model == <<latent_codes, decoder_vars, adam>>
sampler == <<gx, gy, encoded_points, encoded_json>>

\* ------------------------------------------------------------ arithmetic
Sgn(a) == IF a > 0 THEN 1 ELSE IF a < 0 THEN -1 ELSE 0

Abs(a) == IF a < 0 THEN -a ELSE a

Add(a, b) == IF a = NaN \/ b = NaN THEN NaN ELSE a + b

Sub(a, b) == IF a = NaN \/ b = NaN THEN NaN ELSE a - b

Sq(a) == IF a = NaN THEN NaN ELSE a * a

\* a / n for a positive integer n, truncated toward zero
Div(a, n) == IF a = NaN THEN NaN ELSE Sgn(a) * (Abs(a) \div n)

\* a < b on floats: FALSE whenever either side is NaN
Less(a, b) == a # NaN /\ b # NaN /\ a < b

RECURSIVE SumSeq(_)
SumSeq(s) == IF s = <<>> THEN 0 ELSE Add(Head(s), SumSeq(Tail(s)))

Zeros(n) == [k \in 1..n |-> 0]

\* ------------------------------------------------------------- inputs
\* Pixel values of a normalised image, and the invalid value a broken
\* dataset provider may produce.
PixelValues == {0, 1}

Images == [1..IMG_SIZE -> PixelValues]

BrokenImages == [1..IMG_SIZE -> PixelValues \cup {NaN}]

\* Class labels the dataset provider may attach to a sample.
Labels == {0, 2}

\* Seeds of the random generator, and the table tf.random.normal([n,
\* LATENT_DIM]) draws under each: rows <<0, 0>> and <<1, -1>> alternate,
\* starting with one or the other.
Seeds == {1, 2}

RandomNormal(seed, n) ==
    [j \in 1..n |->
        IF (j + seed) % 2 = 0 THEN Zeros(LATENT_DIM)
        ELSE [d \in 1..LATENT_DIM |-> IF d % 2 = 1 THEN 1 ELSE -1]]

\* Values of display_interval (1000 in the script).
DisplayIntervals == {2}

\* -------------------------------------------------------------- decoder
\* Output activation: saturates to [0, 1].
Sigmoid(a) == IF a = NaN THEN NaN ELSE IF a <= 0 THEN 0 ELSE 1

\* Latent coordinate read by output pixel p.
Coord(p) == ((p - 1) % LATENT_DIM) + 1

\* decoder(z) for one latent vector z.
DecodeOne(dv, z) ==
    [p \in 1..IMG_SIZE |-> Sigmoid(Add(Add(dv.hidden, dv.bias[p]), z[Coord(p)]))]

\* decoder(z) for a batch of latent vectors.
decoder(dv, zs) == [r \in 1..Len(zs) |-> DecodeOne(dv, zs[r])]

\* tf.gather(latent_codes, latent_idx)
Gather(table, idx) == [r \in 1..Len(idx) |-> table[idx[r] + 1]]

\* keras.losses.MeanSquaredError over a batch: mean of the squared
\* differences over every pixel of every row, three decimals.
loss_fn(target, reconstructed) ==
    LET sq == [r \in 1..Len(target) |->
                  SumSeq([p \in 1..IMG_SIZE |->
                             Sq(Sub(target[r][p], reconstructed[r][p]))])]
        total == SumSeq(sq)
    IN  IF total = NaN THEN NaN ELSE (total * 1000) \div (Len(target) * IMG_SIZE)

\* The list [i] passed as latent_idx.
LatentIdx(i) == <<i>>

\* Faulty variant: the slice of the next sample.
TargetSliceBug(i) == [k \in 1..1 |-> (i + 1) % NUM_SHAPES]

\* Row indices selected by the slice x_data_flat[i:i+1].
TargetSlice(i) == [k \in 1..((i + 1) - i) |-> i + k - 1]

\* x_data_flat[rows]
TargetImage(rows) == [r \in 1..Len(rows) |-> x_data[rows[r] + 1]]

\* tape.gradient(loss, trainable_vars), up to a positive factor: the
\* derivative of the loss in each output pixel, summed over the batch.
PixelGrad(target, reconstructed) ==
    [p \in 1..IMG_SIZE |->
        SumSeq([r \in 1..Len(target) |-> Sub(reconstructed[r][p], target[r][p])])]

\* Gradient in latent_codes: an IndexedSlices holding rows only for idx.
\* Back-propagation through the shared layers mixes every pixel into
\* every latent coordinate, so one NaN pixel makes the whole row NaN.
LatentGrad(idx, pg) ==
    [indices |-> idx,
     values |-> [r \in 1..Len(idx) |->
                    [d \in 1..LATENT_DIM |->
                        IF \E p \in 1..IMG_SIZE : pg[p] = NaN THEN NaN
                        ELSE SumSeq([p \in 1..IMG_SIZE |->
                                        IF Coord(p) = d THEN pg[p] ELSE 0])]]]

\* The dense gradient an IndexedSlices stands for: zero outside its rows.
Densify(slices, n) ==
    [j \in 1..n |->
        IF \E r \in 1..Len(slices.indices) : slices.indices[r] + 1 = j
        THEN slices.values[CHOOSE r \in 1..Len(slices.indices) :
                               slices.indices[r] + 1 = j]
        ELSE Zeros(LATENT_DIM)]

\* -------------------------------------------------------------- optimizer
\* Adam's first moment, in hundredths: m <- 0.9*m + 0.1*g.
AdamMoment(m, g) ==
    IF m = NaN \/ g = NaN THEN NaN
    ELSE Sgn(m) * ((9 * Abs(m)) \div 10) + 10 * g

\* Adam's update of one entry: one unit against the sign of the moment.
AdamUpdate(v, m) == IF v = NaN \/ m = NaN THEN NaN ELSE v - Sgn(m)

\* optimizer.apply_gradients(zip(gradients, trainable_vars)): every entry
\* of every variable is updated from its own moment.
ApplyGradients(opt, table, dv, gl, gh, gb) ==
    LET ml == [j \in 1..Len(table) |->
                  [d \in 1..LATENT_DIM |-> AdamMoment(opt.latent[j][d], gl[j][d])]]
        mh == AdamMoment(opt.hidden, gh)
        mb == [p \in 1..IMG_SIZE |-> AdamMoment(opt.bias[p], gb[p])]
    IN  [adam |-> [latent |-> ml, hidden |-> mh, bias |-> mb,
                   iterations |-> opt.iterations + 1],
         latent_codes |-> [j \in 1..Len(table) |->
                              [d \in 1..LATENT_DIM |->
                                  AdamUpdate(table[j][d], ml[j][d])]],
         decoder_vars |-> [hidden |-> AdamUpdate(dv.hidden, mh),
                           bias |-> [p \in 1..IMG_SIZE |->
                                        AdamUpdate(dv.bias[p], mb[p])]]]

\* train_step(latent_idx, target_image): the loss of the forward pass and
\* the state the update leaves.
train_step(latent_idx, target_image) ==
    LET z == Gather(latent_codes, latent_idx)
        reconstructed == decoder(decoder_vars, z)
        loss == loss_fn(target_image, reconstructed)
        pg == PixelGrad(target_image, reconstructed)
        gl == Densify(LatentGrad(latent_idx, pg), Len(latent_codes))
        after == ApplyGradients(adam, latent_codes, decoder_vars,
                                gl, SumSeq(pg), pg)
    IN  [loss |-> loss, after |-> after]

\* ------------------------------------------------------------ the script
\* State after lines 1-104: dataset loaded, decoder and latent table
\* built, optimizer created, loss_history empty.
InitWith(sizes, images) ==
    /\ NUM_SHAPES \in sizes
    /\ epochs \in 0..MaxEpochs
    /\ display_interval \in DisplayIntervals
    /\ x_data \in [1..NUM_SHAPES -> images]
    /\ y_data \in [1..NUM_SHAPES -> Labels]
    /\ latent_codes \in {RandomNormal(seed, NUM_SHAPES) : seed \in Seeds}
    /\ decoder_vars = [hidden |-> 0, bias |-> Zeros(IMG_SIZE)]
    /\ adam = [latent |-> [j \in 1..NUM_SHAPES |-> Zeros(LATENT_DIM)],
               hidden |-> 0, bias |-> Zeros(IMG_SIZE), iterations |-> 0]
    /\ pc = "epoch_head"
    /\ epoch = 0
    /\ pos = 0
    /\ epoch_loss = 0
    /\ loss_history = <<>>
    /\ console = <<>>
    /\ step_log = <<>>
    /\ export_weights = <<>>
    /\ gx = 0
    /\ gy = 0
    /\ encoded_points = <<>>
    /\ encoded_json = <<>>

\* A dataset as the data model describes it: at least one sample, pixels
\* in [0, 1].
Init == InitWith(1..MaxShapes, Images)

\* Any dataset the provider can hand over, empty or with invalid pixels.
InitFault == InitWith(0..MaxShapes, BrokenImages)

\* Faulty variant: the loop also ends once an epoch's mean loss is zero.
LoopHasNextEarlyStop ==
    /\ epoch + 1 <= epochs
    /\ IF loss_history = <<>> THEN TRUE ELSE loss_history[Len(loss_history)] # 0

\* range(1, epochs + 1) has a value after the current one.
LoopHasNext == epoch + 1 <= epochs

\* for epoch in range(1, epochs + 1): epoch_loss = 0
EpochBegin ==
    /\ pc = "epoch_head"
    /\ LoopHasNext
    /\ epoch' = epoch + 1
    /\ epoch_loss' = 0
    /\ pos' = 0
    /\ pc' = "inner"
    /\ UNCHANGED <<config, model, loss_history, console, step_log,
                   export_weights, sampler>>

\* Faulty variant: the samples visited last to first.
ShapeRangeReversed == [k \in 1..NUM_SHAPES |-> NUM_SHAPES - k]

\* The order range(NUM_SHAPES) yields the sample indices in.
ShapeRange == [k \in 1..NUM_SHAPES |-> k - 1]

\* loss = train_step([i], x_data_flat[i:i+1]); epoch_loss += loss
TrainStep ==
    /\ pc = "inner"
    /\ pos < Len(ShapeRange)
    /\ LET i == ShapeRange[pos + 1]
           rows == TargetSlice(i)
           res == train_step(LatentIdx(i), TargetImage(rows))
       IN  /\ latent_codes' = res.after.latent_codes
           /\ decoder_vars' = res.after.decoder_vars
           /\ adam' = res.after.adam
           /\ epoch_loss' = Add(epoch_loss, res.loss)
           /\ step_log' = Append(step_log,
                  [epoch |-> epoch, latent_idx |-> LatentIdx(i),
                   target_idx |-> rows, loss |-> res.loss,
                   at_iter |-> adam.iterations])
    /\ pos' = pos + 1
    /\ UNCHANGED <<config, pc, epoch, loss_history, console,
                   export_weights, sampler>>

\* Faulty variant: the sum is recorded undivided.
MeanOverSum(total, n) == total

\* epoch_loss /= NUM_SHAPES
MeanOver(total, n) == Div(total, n)

\* epoch_loss /= NUM_SHAPES; loss_history.append(epoch_loss.numpy())
EpochMean ==
    /\ pc = "inner"
    /\ pos = Len(ShapeRange)
    /\ NUM_SHAPES # 0
    /\ epoch_loss' = MeanOver(epoch_loss, NUM_SHAPES)
    /\ loss_history' = Append(loss_history, epoch_loss')
    /\ pc' = "display"
    /\ UNCHANGED <<config, model, epoch, pos, console, step_log,
                   export_weights, sampler>>

\* epoch_loss /= NUM_SHAPES with NUM_SHAPES = 0: ZeroDivisionError ends
\* the script.
ZeroDivision ==
    /\ pc = "inner"
    /\ pos = Len(ShapeRange)
    /\ NUM_SHAPES = 0
    /\ pc' = "crashed"
    /\ UNCHANGED <<config, model, epoch, pos, epoch_loss, loss_history,
                   console, step_log, export_weights, sampler>>

\* Faulty variant: the first epoch is not singled out.
ShouldDisplayNoFirst(e) == e % display_interval = 0

\* if epoch % display_interval == 0 or epoch == 1
ShouldDisplay(e) == e % display_interval = 0 \/ e = 1

\* Display progress: print(f"Epoch {epoch}/{epochs}, Loss: {epoch_loss:.6f}")
\* at_iter and at_len record the optimizer's update count and the length
\* of loss_history when the line is printed.
Display ==
    /\ pc = "display"
    /\ console' = IF ShouldDisplay(epoch)
                  THEN Append(console,
                           [epoch |-> epoch, of |-> epochs, loss |-> epoch_loss,
                            at_iter |-> adam.iterations,
                            at_len |-> Len(loss_history)])
                  ELSE console
    /\ pc' = "epoch_head"
    /\ UNCHANGED <<config, model, epoch, pos, epoch_loss, loss_history,
                   step_log, export_weights, sampler>>

\* The loop is exhausted: the script goes on to the learned codes.
TrainingDone ==
    /\ pc = "epoch_head"
    /\ ~LoopHasNext
    /\ pc' = "export"
    /\ UNCHANGED <<config, model, epoch, pos, epoch_loss, loss_history,
                   console, step_log, export_weights, sampler>>

\* export_model.set_weights(decoder.get_weights()); save_keras_model(...)
ExportModel ==
    /\ pc = "export"
    /\ export_weights' = <<decoder_vars>>
    /\ pc' = "grid"
    /\ UNCHANGED <<config, model, epoch, pos, epoch_loss, loss_history,
                   console, step_log, sampler>>

\* ------------------------------------------------------------ the sampler
\* np.linspace(lo, hi, n): n evenly spaced values from lo to hi inclusive.
Linspace(lo, hi, n) ==
    [k \in 1..n |-> IF n = 1 THEN lo ELSE lo + ((k - 1) * (hi - lo)) \div (n - 1)]

x_grid == Linspace(x_min, x_max, grid_size)

y_grid == Linspace(y_min, y_max, grid_size)

\* np.sum((img - shape_img)**2)
SquaredDistance(img, shape_img) ==
    SumSeq([p \in 1..IMG_SIZE |-> Sq(Sub(img[p], shape_img[p]))])

\* Faulty variant: a tie replaces the current choice.
CloserOrEqual(dist, min_dist) == dist # NaN /\ min_dist # NaN /\ dist <= min_dist

\* if dist < min_dist
Closer(dist, min_dist) == Less(dist, min_dist)

\* for i in range(NUM_SHAPES): the scan from sample i on, given the best
\* distance and label found so far.
RECURSIVE ClosestShape(_, _, _, _)
ClosestShape(img, i, min_dist, closest_shape) ==
    IF i >= NUM_SHAPES THEN closest_shape
    ELSE LET dist == SquaredDistance(img, x_data[i + 1])
         IN  IF Closer(dist, min_dist)
             THEN ClosestShape(img, i + 1, dist, y_data[i + 1])
             ELSE ClosestShape(img, i + 1, min_dist, closest_shape)

\* Faulty variant: the coordinates stored in the other order.
EntrySwapped(x, y, label) == <<y, x, label>>

\* [float(x), float(y), int(closest_shape)]
Entry(x, y, label) == <<x, y, label>>

\* grid_size = 20 ... encoded_points = []
GridInit ==
    /\ pc = "grid"
    /\ gx' = 0
    /\ gy' = 0
    /\ encoded_points' = <<>>
    /\ pc' = "sample"
    /\ UNCHANGED <<config, model, epoch, pos, epoch_loss, loss_history,
                   console, step_log, export_weights, encoded_json>>

\* Body of "for x in x_grid: for y in y_grid": decode the point, find the
\* closest shape, append the entry.
SamplePoint ==
    /\ pc = "sample"
    /\ gx < grid_size
    /\ LET x == x_grid[gx + 1]
           y == y_grid[gy + 1]
           point == <<x, y>>
           img == decoder(decoder_vars, <<point>>)[1]
           closest_shape == ClosestShape(img, 0, Inf, 0)
       IN  encoded_points' = Append(encoded_points, Entry(x, y, closest_shape))
    /\ IF gy + 1 < grid_size
       THEN gy' = gy + 1 /\ gx' = gx
       ELSE gy' = 0 /\ gx' = gx + 1
    /\ UNCHANGED <<config, model, pc, epoch, pos, epoch_loss, loss_history,
                   console, step_log, export_weights, encoded_json>>

\* json.dump(encoded_points, f)
SaveEncoded ==
    /\ pc = "sample"
    /\ gx = grid_size
    /\ encoded_json' = <<encoded_points>>
    /\ pc' = "done"
    /\ UNCHANGED <<config, model, epoch, pos, epoch_loss, loss_history,
                   console, step_log, export_weights, gx, gy, encoded_points>>

Next ==
    \/ EpochBegin
    \/ TrainStep
    \/ EpochMean
    \/ Display
    \/ TrainingDone
    \/ ExportModel
    \/ GridInit
    \/ SamplePoint
    \/ SaveEncoded

Spec == Init /\ [][Next]_vars

NextFault == Next \/ ZeroDivision

SpecFault == InitFault /\ [][NextFault]_vars

\* ------------------------------------------------------------ properties
PostTraining == {"export", "grid", "sample", "done"}

\* Sample indices as the 1-based positions of x_data, y_data, latent_codes.
Samples == 1..NUM_SHAPES

\* C1: with at least one sample, the training loop is left only after
\* exactly `epochs` epochs, whatever the losses were, and loss_history then
\* holds exactly `epochs` values; before that it never holds more.
C1_ExactEpochs ==
    NUM_SHAPES >= 1 =>
        /\ epoch <= epochs
        /\ Len(loss_history) <= epochs
        /\ pc \in PostTraining => (epoch = epochs /\ Len(loss_history) = epochs)

\* A finished run of two or more epochs whose first epoch already had
\* loss zero: a convergence exit would have stopped it.
C1_Witness ==
    /\ pc = "done"
    /\ epochs >= 2
    /\ Len(loss_history) = epochs
    /\ loss_history[1] = 0

\* C2 (as claimed): a training step for sample i leaves every row j # i of
\* the latent table as it was.
C2_OnlyRowChanges ==
    [][step_log' # step_log =>
          \A j \in Samples :
              j # ShapeRange[pos + 1] + 1 => latent_codes'[j] = latent_codes[j]]_vars

\* C3: the latent table always has NUM_SHAPES rows, and every training
\* step gathered exactly one latent row and took as target the image of
\* that same sample index.
C3_Pairing ==
    /\ Len(latent_codes) = NUM_SHAPES
    /\ \A k \in 1..Len(step_log) :
          /\ Len(step_log[k].latent_idx) = 1
          /\ step_log[k].latent_idx[1] \in 0..(NUM_SHAPES - 1)
          /\ step_log[k].target_idx = step_log[k].latent_idx

\* A step of a later epoch for a sample other than the first.
C3_Witness ==
    \E k \in 1..Len(step_log) :
        step_log[k].latent_idx = <<1>> /\ step_log[k].epoch >= 2

\* C4: the k-th training step of the run is the step of epoch
\* ((k-1) div N) + 1 for sample (k-1) mod N, it starts when exactly k-1
\* updates have been applied, and after e completed epochs the optimizer
\* has applied e * N updates.
C4_Order ==
    /\ adam.iterations = Len(step_log)
    /\ \A k \in 1..Len(step_log) :
          /\ step_log[k].latent_idx = <<(k - 1) % NUM_SHAPES>>
          /\ step_log[k].epoch = ((k - 1) \div NUM_SHAPES) + 1
          /\ step_log[k].at_iter = k - 1
    /\ pc = "inner" => adam.iterations = (epoch - 1) * NUM_SHAPES + pos
    /\ pc # "inner" => adam.iterations = epoch * NUM_SHAPES

\* A finished run of several epochs over several samples.
C4_Witness ==
    /\ pc = "done"
    /\ NUM_SHAPES >= 2
    /\ epochs >= 2
    /\ adam.iterations = epochs * NUM_SHAPES

\* Distance between the image decoded at the k-th sampled point and the
\* target image of sample i.
DistAt(k, i) ==
    SquaredDistance(
        DecodeOne(decoder_vars, <<encoded_points[k][1], encoded_points[k][2]>>),
        x_data[i])

\* The lowest-indexed sample among those at minimum distance.
Nearest(k) ==
    CHOOSE i \in Samples :
        /\ \A j \in Samples : DistAt(k, i) <= DistAt(k, j)
        /\ \A j \in 1..(i - 1) : DistAt(k, j) > DistAt(k, i)

\* C5: every sampled point carries the label of the sample whose target
\* image is nearest to the image decoded there, the lowest-indexed one
\* when several are equally near.
C5_NearestLabel ==
    \A k \in 1..Len(encoded_points) : encoded_points[k][3] = y_data[Nearest(k)]

\* A sampled point with two differently labelled samples tied at the
\* minimum distance.
C5_Witness ==
    /\ pc = "done"
    /\ \E k \in 1..Len(encoded_points) :
          \E i, j \in Samples :
              /\ i < j
              /\ i = Nearest(k)
              /\ DistAt(k, j) = DistAt(k, i)
              /\ y_data[i] # y_data[j]

\* C6: the entries are produced one per grid point in row-major order, x
\* outer and y inner; each label is a training label; the finished run
\* has grid_size * grid_size entries and writes exactly those.
C6_GridOrder ==
    /\ pc = "sample" => Len(encoded_points) = gx * grid_size + gy
    /\ pc = "done" =>
          /\ Len(encoded_points) = grid_size * grid_size
          /\ encoded_json = <<encoded_points>>
    /\ \A k \in 1..Len(encoded_points) :
          /\ encoded_points[k][1] = x_grid[((k - 1) \div grid_size) + 1]
          /\ encoded_points[k][2] = y_grid[((k - 1) % grid_size) + 1]
          /\ encoded_points[k][3] \in {y_data[i] : i \in Samples}

\* A finished run whose training labels do not include the scan's
\* starting label 0.
C6_Witness ==
    /\ pc = "done"
    /\ Len(encoded_points) = grid_size * grid_size
    /\ grid_size >= 2
    /\ \A i \in Samples : y_data[i] # 0

C8_NonFiniteAborts ==
    \A k \in 1..Len(step_log) :
        step_log[k].loss = NaN =>
            /\ k = Len(step_log)
            /\ pc \notin PostTraining

\* Epochs whose Display step has run.
Displayed == IF pc \in {"inner", "display"} THEN epoch - 1 ELSE epoch

\* C9: among the epochs that have passed their display step, exactly
\* epoch 1 and the multiples of display_interval have a progress line;
\* the lines are in epoch order, each printed when all epoch * N updates
\* of its epoch were applied and loss_history already held that epoch's
\* mean, which is the loss it shows.
C9_Progress ==
    /\ \A e \in 1..Displayed :
          (\E k \in 1..Len(console) : console[k].epoch = e)
              <=> (e = 1 \/ e % display_interval = 0)
    /\ \A k \in 1..Len(console) :
          /\ console[k].epoch \in 1..Displayed
          /\ console[k].at_iter = console[k].epoch * NUM_SHAPES
          /\ console[k].at_len = console[k].epoch
          /\ console[k].loss = loss_history[console[k].epoch]
          /\ k > 1 => console[k - 1].epoch < console[k].epoch

\* A finished run with a first epoch, a multiple of the interval and an
\* epoch that is neither.
C9_Witness ==
    /\ pc = "done"
    /\ \E e \in 2..epochs : e % display_interval # 0
    /\ \E k \in 1..Len(console) : console[k].epoch = 1
    /\ \E k \in 1..Len(console) : console[k].epoch > 1

\* Losses of the training steps of epoch e, in step order.
EpochLosses(e) ==
    LET steps == SelectSeq(step_log, LAMBDA r : r.epoch = e)
    IN  [k \in 1..Len(steps) |-> steps[k].loss]

\* C10: loss_history changes only by one value appended at the end, the
\* sum of the N step losses of the current epoch divided by N; each step
\* loss is the loss of the parameters as they were before that step's
\* update; nothing changes it once training is over.
C10_AppendOnly ==
    [][/\ loss_history' # loss_history =>
              /\ Len(EpochLosses(epoch)) = NUM_SHAPES
              /\ loss_history' =
                     Append(loss_history,
                            Div(SumSeq(EpochLosses(epoch)), NUM_SHAPES))
       /\ step_log' # step_log =>
              /\ Len(step_log') = Len(step_log) + 1
              /\ step_log'[Len(step_log')].loss =
                     loss_fn(<<x_data[pos + 1]>>,
                             decoder(decoder_vars, <<latent_codes[pos + 1]>>))
       /\ pc \in PostTraining => loss_history' = loss_history]_vars

\* A finished run over two samples whose epoch means differ and are not
\* zero.
C10_Witness ==
    /\ pc = "done"
    /\ NUM_SHAPES = 2
    /\ Len(loss_history) >= 2
    /\ loss_history[1] # 0
    /\ loss_history[2] # loss_history[1]

====
